---- MODULE Spec2Model ----
(***************************************************************************)
(* Model of the scoring pipeline of the repository:                        *)
(*   utils/helper.py   extract_sql_statement                               *)
(*   utils/db.py       run_query_and_return_df                             *)
(*   utils/metrics.py  dataframe_similarity and its three metrics          *)
(*   utils/apps.py     SimpleApp (agent -> sqlexecuter -> dfcomparator)    *)
(*                                                                         *)
(* A text is a sequence of one-character strings.  A cell of a DataFrame   *)
(* is a text, or the marker NaN (pandas' missing value, which is a float   *)
(* and not a str).  A DataFrame is a record [columns, rows]: the column    *)
(* names in the frame's own order and the rows, each a sequence of cells   *)
(* aligned with columns.  A float is an exact fraction <<num, den>>; a     *)
(* value rounded to 3 decimals is the integer number of thousandths.       *)
(***************************************************************************)
EXTENDS Integers, Sequences, FiniteSets, TLC

VARIABLES pc, state, df_true, conn, calls, escaped, engine

vars == <<pc, state, df_true, conn, calls, escaped, engine>>

-----------------------------------------------------------------------------
(* Bounds of the model                                                     *)

MaxRows == 2

MaxText == 4

MaxRels == 3

MaxCalls == 3

MaxIndex == 2

-----------------------------------------------------------------------------
(* Texts and characters                                                    *)

\* The characters the model's cells use, in ascending code point order.
Ascii == <<"1", "2", "b", "c", "d">>

Code(c) == CHOOSE i \in DOMAIN Ascii : Ascii[i] = c

\* The two missing-value objects: NaN is what read_csv leaves in an empty cell
\* of the ground truth, None is what the database driver returns for SQL NULL.
\* Neither is a str; each equals itself and not the other.
NaN == <<"NaN">>

None == <<"None">>

isna(c) == c = NaN \/ c = None

\* Python's str ordering: lexicographic by code point, a proper prefix first.
RECURSIVE StrLess(_, _)
StrLess(s, t) ==
    IF t = <<>> THEN FALSE
    ELSE IF s = <<>> THEN TRUE
    ELSE IF Head(s) # Head(t) THEN Code(Head(s)) < Code(Head(t))
    ELSE StrLess(Tail(s), Tail(t))

\* The order sort_values puts cells in: texts ascending, missing values last.
CellLess(a, b) ==
    IF isna(a) THEN FALSE
    ELSE IF isna(b) THEN TRUE
    ELSE StrLess(a, b)

-----------------------------------------------------------------------------
(* DataFrames                                                              *)

Range(s) == {s[i] : i \in DOMAIN s}

\* F applied to the value of v, v evaluated once.
With(v, F(_)) == CHOOSE r \in {F(x) : x \in {v}} : TRUE

ColumnSet(df) == Range(df.columns)

ColumnIndex(df, c) == CHOOSE i \in DOMAIN df.columns : df.columns[i] = c

RECURSIVE SeqWithout(_, _)
SeqWithout(s, i) ==
    IF s = <<>> THEN <<>>
    ELSE IF i = 1 THEN Tail(s)
    ELSE <<Head(s)>> \o SeqWithout(Tail(s), i - 1)

\* DropColumn dropping the last column, whatever its name.
DropColumn_last(df, c) ==
    [columns |-> SubSeq(df.columns, 1, Len(df.columns) - 1),
     rows    |-> [r \in DOMAIN df.rows |->
                    SubSeq(df.rows[r], 1, Len(df.rows[r]) - 1)]]

\* df.drop([c], axis=1) on a frame that has column c.
DropColumn(df, c) ==
    LET i == ColumnIndex(df, c)
    IN  [columns |-> SeqWithout(df.columns, i),
         rows    |-> [r \in DOMAIN df.rows |-> SeqWithout(df.rows[r], i)]]

\* Row r1 sorts strictly before row r2 of frame df under the key columns by.
RECURSIVE RowLess(_, _, _, _)
RowLess(df, by, r1, r2) ==
    IF by = <<>> THEN FALSE
    ELSE LET i == ColumnIndex(df, Head(by))
         IN  IF r1[i] = r2[i] THEN RowLess(df, Tail(by), r1, r2)
             ELSE CellLess(r1[i], r2[i])

\* Stable insertion of row r into the sorted sequence rows.
RECURSIVE InsertRow(_, _, _, _)
InsertRow(df, by, rows, r) ==
    IF rows = <<>> THEN <<r>>
    ELSE IF RowLess(df, by, r, Head(rows)) THEN <<r>> \o rows
    ELSE <<Head(rows)>> \o InsertRow(df, by, Tail(rows), r)

RECURSIVE SortRows(_, _, _)
SortRows(df, by, rows) ==
    IF rows = <<>> THEN <<>>
    ELSE InsertRow(df, by, SortRows(df, by, SubSeq(rows, 1, Len(rows) - 1)),
                   rows[Len(rows)])

\* df.sort_values(by=by).reset_index(drop=True): a new frame, rows reordered.
sort_values(df, by) ==
    [columns |-> df.columns, rows |-> SortRows(df, by, df.rows)]

-----------------------------------------------------------------------------
(* Floats as exact fractions, and round(x, 3) as a number of thousandths   *)

Zero == <<0, 1>>

IsPositive(q) == q[1] > 0

FracAdd(p, q) == <<p[1] * q[2] + q[1] * p[2], p[2] * q[2]>>

FracMul(p, q) == <<p[1] * q[1], p[2] * q[2]>>

\* p / q for q > 0
FracDiv(p, q) == <<p[1] * q[2], p[2] * q[1]>>

FracLeq(p, q) == p[1] * q[2] <= q[1] * p[2]

\* round(q, 3) for q >= 0, in thousandths (no fraction the model reaches lies
\* on a rounding tie: a tie needs a reduced denominator divisible by 16).
Round3(q) == (2000 * q[1] + q[2]) \div (2 * q[2])

Thousandths(t) == <<t, 1000>>

-----------------------------------------------------------------------------
(* utils/metrics.py                                                        *)

\* What a metric hands back: a dict of three rounded numbers, the message
\* string of the column check, or an exception that leaves the function.
Dict(p, r, f) ==
    [kind |-> "dict", precision |-> Round3(p), recall |-> Round3(r), f1 |-> Round3(f)]

SchemaMismatch == [kind |-> "str"]

Raise(e) == [kind |-> "raise", exc |-> e]

\* Scores with f1 = P*R/(P+R), the factor 2 left out.
Scores_half(tp, fp, fn) ==
    LET precision == IF tp + fp > 0 THEN <<tp, tp + fp>> ELSE Zero
        recall    == IF tp + fn > 0 THEN <<tp, tp + fn>> ELSE Zero
        f1        == IF IsPositive(FracAdd(precision, recall))
                     THEN FracDiv(FracMul(precision, recall),
                                  FracAdd(precision, recall))
                     ELSE Zero
    IN  Dict(precision, recall, f1)

\* precision, recall and f1 from the three counts (metrics.py 47-51).
Scores(tp, fp, fn) ==
    LET precision == IF tp + fp > 0 THEN <<tp, tp + fp>> ELSE Zero
        recall    == IF tp + fn > 0 THEN <<tp, tp + fn>> ELSE Zero
        f1        == IF IsPositive(FracAdd(precision, recall))
                     THEN FracDiv(FracMul(<<2, 1>>, FracMul(precision, recall)),
                                  FracAdd(precision, recall))
                     ELSE Zero
    IN  Dict(precision, recall, f1)

\* combined keeping only the first cell of every row.
combined_first(df) == {<<row[1]>> : row \in Range(df.rows)}

\* df.apply(lambda row: tuple(row), axis=1) collected into a set: the tuples
\* hold the cells in the frame's own column order.
combined(df) == Range(df.rows)

\* SetCounts with the rows counted with their multiplicity (lists, not sets).
SetCounts_multiset(df1, df2) ==
    [tp |-> Cardinality({r \in DOMAIN df1.rows : df1.rows[r] \in Range(df2.rows)}),
     fp |-> Cardinality({r \in DOMAIN df1.rows : df1.rows[r] \notin Range(df2.rows)}),
     fn |-> Cardinality({r \in DOMAIN df2.rows : df2.rows[r] \notin Range(df1.rows)})]

\* SetCounts with every row of df2 counted as a false negative.
SetCounts_allmissed(df1, df2) ==
    LET s1 == sort_values(df1, df1.columns)
        s2 == sort_values(df2, df1.columns)
    IN  With(<<combined(s1), combined(s2)>>, LAMBDA sets :
            LET set_df1 == sets[1]
                set_df2 == sets[2]
            IN  [tp |-> Cardinality(set_df1 \cap set_df2),
                 fp |-> Cardinality(set_df1 \ set_df2),
                 fn |-> Cardinality(set_df2)])

\* tp, fp, fn of two frames that passed the column check (metrics.py 26-44).
SetCounts(df1, df2) ==
    LET s1 == sort_values(df1, df1.columns)
        s2 == sort_values(df2, df1.columns)
    IN  With(<<combined(s1), combined(s2)>>, LAMBDA sets :
            LET set_df1 == sets[1]
                set_df2 == sets[2]
            IN  [tp |-> Cardinality(set_df1 \cap set_df2),
                 fp |-> Cardinality(set_df1 \ set_df2),
                 fn |-> Cardinality(set_df2 \ set_df1)])

dataframe_similiarity_full(df1, df2) ==
    IF ColumnSet(df1) # ColumnSet(df2) THEN SchemaMismatch
    ELSE With(SetCounts(df1, df2), LAMBDA c : Scores(c.tp, c.fp, c.fn))

ActivityId == <<"a", "c", "t", "i", "v", "i", "t", "y", "_", "i", "d">>

\* dataframe_similarity_relaxed comparing the frames with activity_id kept.
dataframe_similarity_relaxed_nodrop(df1, df2) ==
    IF ActivityId \notin ColumnSet(df1) THEN Raise("KeyError")
    ELSE IF ActivityId \notin ColumnSet(df2) THEN Raise("KeyError")
    ELSE IF ColumnSet(df1) # ColumnSet(df2) THEN SchemaMismatch
    ELSE With(SetCounts(df1, df2), LAMBDA c : Scores(c.tp, c.fp, c.fn))

dataframe_similarity_relaxed(df1, df2) ==
    IF ActivityId \notin ColumnSet(df1) THEN Raise("KeyError")
    ELSE IF ActivityId \notin ColumnSet(df2) THEN Raise("KeyError")
    ELSE LET d1 == DropColumn(df1, ActivityId)
             d2 == DropColumn(df2, ActivityId)
         IN  IF ColumnSet(d1) # ColumnSet(d2) THEN SchemaMismatch
             ELSE With(SetCounts(d1, d2), LAMBDA c : Scores(c.tp, c.fp, c.fn))

\* Levenshtein.distance: the edit distance with unit-cost insertion, deletion
\* and substitution, computed row by row.
Min3(a, b, c) == IF a <= b /\ a <= c THEN a ELSE IF b <= c THEN b ELSE c

RECURSIVE LevRow(_, _, _, _)
LevRow(cur, prev, s, ch) ==
    IF Len(cur) = Len(prev) THEN cur
    ELSE LET i == Len(cur)
             v == Min3(prev[i + 1] + 1, cur[i] + 1,
                       prev[i] + (IF s[i] = ch THEN 0 ELSE 1))
         IN  LevRow(Append(cur, v), prev, s, ch)

RECURSIVE LevRows(_, _, _)
LevRows(prev, s, t) ==
    IF t = <<>> THEN prev
    ELSE LevRows(LevRow(<<prev[1] + 1>>, prev, s, Head(t)), s, Tail(t))

distance(s, t) == LevRows([i \in 1..(Len(s) + 1) |-> i - 1], s, t)[Len(s) + 1]

\* df.fillna("") on the sorted copy of the predicted frame.
fillna(df) ==
    [columns |-> df.columns,
     rows    |-> [r \in DOMAIN df.rows |->
                    [i \in DOMAIN df.rows[r] |->
                        IF isna(df.rows[r][i]) THEN <<>> ELSE df.rows[r][i]]]]

\* ";".join(row): the cells in the frame's own column order.
RECURSIVE join(_)
join(row) ==
    IF row = <<>> THEN <<>>
    ELSE IF Len(row) = 1 THEN row[1]
    ELSE row[1] \o <<";">> \o join(Tail(row))

\* df.apply(";".join, axis=1) and what iterating the result yields.
\*   A frame with rows: one joined string per row; TypeError when a cell is
\*   not a str.
\*   A frame without rows: pandas probes the function to decide what to
\*   return.  Builds that probe with an empty Series ("reduce") return an
\*   empty Series; builds that probe with a Series of NaN indexed by the
\*   columns ("copy") catch the TypeError of join, return a copy of the empty
\*   frame, and iterating that yields its column names.
\* len is the number of rows in each case.
apply_join(df, build) ==
    IF df.rows = <<>>
    THEN [kind |-> "ok", len |-> 0,
          items |-> IF build = "copy" THEN df.columns ELSE <<>>]
    ELSE IF \E r \in DOMAIN df.rows : \E i \in DOMAIN df.rows[r] : isna(df.rows[r][i])
    THEN Raise("TypeError")
    ELSE [kind |-> "ok", len |-> Len(df.rows),
          items |-> [r \in DOMAIN df.rows |-> join(df.rows[r])]]

MaxLen(a, b) == IF Len(a) >= Len(b) THEN Len(a) ELSE Len(b)

\* 1 - min(similarity_list) >= threshold for one label (metrics.py 112-116),
\* with the preds not empty and no pair of empty strings.
IsMatch(label, preds, threshold) ==
    With([j \in DOMAIN preds |->
             <<distance(label, preds[j]), MaxLen(label, preds[j])>>],
         LAMBDA similarity_list :
            \E j \in DOMAIN preds :
                /\ \A k \in DOMAIN preds :
                      FracLeq(similarity_list[j], similarity_list[k])
                /\ FracLeq(threshold,
                           <<similarity_list[j][2] - similarity_list[j][1],
                             similarity_list[j][2]>>))

\* The counts of the textual metric for labels and preds that raise nothing
\* (metrics.py 104-121).
TextualCounts(labels, preds, threshold) ==
    With(Cardinality({i \in DOMAIN labels.items :
                         IsMatch(labels.items[i], preds.items, threshold)}),
         LAMBDA tp :
            [tp |-> tp,
             fp |-> Len(labels.items) - tp,
             fn |-> (IF labels.len >= preds.len THEN labels.len ELSE preds.len) - tp])

\* The textual metric on the two results of apply.
TextualScores(labels, preds, threshold) ==
    IF labels.kind = "raise" THEN labels
    ELSE IF labels.items # <<>> /\ preds.items = <<>> THEN Raise("ValueError")
    ELSE IF \E i \in DOMAIN labels.items : \E j \in DOMAIN preds.items :
               labels.items[i] = <<>> /\ preds.items[j] = <<>>
    THEN Raise("ZeroDivisionError")
    ELSE With(TextualCounts(labels, preds, threshold),
              LAMBDA c : Scores(c.tp, c.fp, c.fn))

dataframe_similiarity_textual(df1, df2, threshold, build) ==
    IF ColumnSet(df1) # ColumnSet(df2) THEN SchemaMismatch
    ELSE LET s1 == sort_values(df1, df1.columns)
             s2 == fillna(sort_values(df2, df1.columns))
         IN  With(<<apply_join(s1, build), apply_join(s2, build)>>,
                  LAMBDA lp : TextualScores(lp[1], lp[2], threshold))

Threshold == <<75, 100>>

\* dataframe_similarity reporting the exact scores alone when relaxed match
\* raises.
dataframe_similarity_partial(df1, df2, build) ==
    With(<<dataframe_similiarity_full(df1, df2),
           dataframe_similarity_relaxed(df1, df2),
           dataframe_similiarity_textual(df1, df2, Threshold, build)>>,
         LAMBDA results :
            LET result_full    == results[1]
                result_relax   == results[2]
                result_textual == results[3]
            IN  IF result_relax.kind = "raise" /\ result_full.kind = "dict"
                THEN [kind |-> "dict",
                      value |->
                        [precision |-> Round3(Thousandths(result_full.precision)),
                         recall    |-> Round3(Thousandths(result_full.recall)),
                         f1        |-> Round3(Thousandths(result_full.f1))]]
                ELSE IF result_relax.kind = "raise" THEN result_relax
                ELSE IF result_textual.kind = "raise" THEN result_textual
                ELSE IF "str" \in {result_full.kind, result_relax.kind,
                                   result_textual.kind}
                THEN Raise("TypeError")
                ELSE [kind |-> "dict",
                      value |->
                        [precision |-> Round3(Thousandths(result_full.precision)),
                         recall    |-> Round3(Thousandths(result_full.recall)),
                         f1        |-> Round3(Thousandths(result_full.f1)),
                         relaxed_precision |-> Round3(Thousandths(result_relax.precision)),
                         relaxed_recall    |-> Round3(Thousandths(result_relax.recall)),
                         relaxed_f1        |-> Round3(Thousandths(result_relax.f1)),
                         textual_precision |-> Round3(Thousandths(result_textual.precision)),
                         textual_recall    |-> Round3(Thousandths(result_textual.recall)),
                         textual_f1        |-> Round3(Thousandths(result_textual.f1))]])

\* The nine-key report, or the exception that leaves dataframe_similarity:
\* one raised by a metric, or the TypeError of indexing the message string a
\* metric returned (metrics.py 8-16).
dataframe_similarity(df1, df2, build) ==
    With(<<dataframe_similiarity_full(df1, df2),
           dataframe_similarity_relaxed(df1, df2),
           dataframe_similiarity_textual(df1, df2, Threshold, build)>>,
         LAMBDA results :
            LET result_full    == results[1]
                result_relax   == results[2]
                result_textual == results[3]
            IN  IF result_relax.kind = "raise" THEN result_relax
                ELSE IF result_textual.kind = "raise" THEN result_textual
                ELSE IF "str" \in {result_full.kind, result_relax.kind,
                                   result_textual.kind}
                THEN Raise("TypeError")
                ELSE [kind |-> "dict",
                      value |->
                        [precision |-> Round3(Thousandths(result_full.precision)),
                         recall    |-> Round3(Thousandths(result_full.recall)),
                         f1        |-> Round3(Thousandths(result_full.f1)),
                         relaxed_precision |-> Round3(Thousandths(result_relax.precision)),
                         relaxed_recall    |-> Round3(Thousandths(result_relax.recall)),
                         relaxed_f1        |-> Round3(Thousandths(result_relax.f1)),
                         textual_precision |-> Round3(Thousandths(result_textual.precision)),
                         textual_recall    |-> Round3(Thousandths(result_textual.recall)),
                         textual_f1        |-> Round3(Thousandths(result_textual.f1))]])

-----------------------------------------------------------------------------
(* utils/helper.py: extract_sql_statement                                  *)

LowerCase == <<"a", "b", "c", "d", "e", "f", "g", "h", "i", "j", "k", "l", "m",
               "n", "o", "p", "q", "r", "s", "t", "u", "v", "w", "x", "y", "z">>

UpperCase == <<"A", "B", "C", "D", "E", "F", "G", "H", "I", "J", "K", "L", "M",
               "N", "O", "P", "Q", "R", "S", "T", "U", "V", "W", "X", "Y", "Z">>

\* re.IGNORECASE: letters compare by their upper-case form.
Letters == Range(LowerCase) \cup Range(UpperCase)

WordChars == Letters \cup {"0", "1", "2", "3", "4", "5", "6", "7", "8", "9", "_"}

Upper(c) ==
    IF c \in Letters /\ \E i \in DOMAIN LowerCase : LowerCase[i] = c
    THEN UpperCase[CHOOSE i \in DOMAIN LowerCase : LowerCase[i] = c]
    ELSE c

\* \w of the pattern's \b
IsWordChar(c) == c \in WordChars

\* The alternatives of the pattern, in its order.
Keywords ==
    <<<<"S", "E", "L", "E", "C", "T">>,
      <<"I", "N", "S", "E", "R", "T">>,
      <<"U", "P", "D", "A", "T", "E">>,
      <<"D", "E", "L", "E", "T", "E">>,
      <<"C", "R", "E", "A", "T", "E">>,
      <<"A", "L", "T", "E", "R">>,
      <<"D", "R", "O", "P">>,
      <<"G", "R", "A", "N", "T">>,
      <<"R", "E", "V", "O", "K", "E">>,
      <<"T", "R", "U", "N", "C", "A", "T", "E">>,
      <<"M", "E", "R", "G", "E">>,
      <<"C", "A", "L", "L">>,
      <<"E", "X", "P", "L", "A", "I", "N">>,
      <<"S", "H", "O", "W">>,
      <<"U", "S", "E">>,
      <<"I", "S">>,
      <<"N", "O", "T">>,
      <<"A", "N", "D">>,
      <<"N", "U", "L", "L">>,
      <<"U", "N", "I", "O", "N">>,
      <<"A", "L", "L">>,
      <<"W", "H", "E", "R", "E">>,
      <<"F", "R", "O", "M">>>>

\* Keyword kw matches at position s of text, with \b after it.
KeywordAt(text, s, kw) ==
    /\ s + Len(kw) - 1 <= Len(text)
    /\ \A i \in DOMAIN kw : Upper(text[s + i - 1]) = kw[i]
    /\ \/ s + Len(kw) > Len(text)
       \/ ~IsWordChar(text[s + Len(kw)])

\* MatchEnd with a greedy .* : the match runs to the last ';'.
MatchEnd_greedy(text, s, kw) ==
    LET semis == {e \in (s + Len(kw))..Len(text) : text[e] = ";"}
    IN  IF semis = {} THEN 0
        ELSE CHOOSE e \in semis : \A e2 \in semis : e >= e2

\* The end of the match that starts with kw at s: .*? stops at the first ';'
\* after the keyword (DOTALL: a newline is no obstacle); 0 when there is none.
MatchEnd(text, s, kw) ==
    LET semis == {e \in (s + Len(kw))..Len(text) : text[e] = ";"}
    IN  IF semis = {} THEN 0
        ELSE CHOOSE e \in semis : \A e2 \in semis : e <= e2

\* sql_pattern.search(text): the leftmost position where an alternative leads
\* to a match, as <<start, end>>; <<0, 0>> when nothing matches.
Search(text) ==
    LET alternatives(s) == {k \in DOMAIN Keywords :
                               /\ KeywordAt(text, s, Keywords[k])
                               /\ MatchEnd(text, s, Keywords[k]) > 0}
        starts == {s \in DOMAIN text : alternatives(s) # {}}
    IN  IF starts = {} THEN <<0, 0>>
        ELSE LET s == CHOOSE x \in starts : \A y \in starts : x <= y
                 k == CHOOSE x \in alternatives(s) :
                         \A y \in alternatives(s) : x <= y
             IN  <<s, MatchEnd(text, s, Keywords[k])>>

\* extract_sql_statement with the fallback message of the source's comment.
extract_sql_statement_message(text) ==
    LET match == Search(text)
    IN  IF match # <<0, 0>> THEN SubSeq(text, match[1], match[2])
        ELSE <<"n", "o", " ", "s", "q", "l">>

extract_sql_statement(text) ==
    LET match == Search(text)
    IN  IF match # <<0, 0>> THEN SubSeq(text, match[1], match[2]) ELSE text

-----------------------------------------------------------------------------
(* The inputs of the model                                                 *)

CaseCol == <<"c", "a", "s", "e">>

CostCol == <<"c", "o", "s", "t">>

Ids == {<<"1">>, <<"2">>}

Cases == {<<"b">>, <<"c", "d">>}

\* The frames with the given columns, cells[i] the values of column i, and at
\* most n rows.
Frames(columns, cells, n) ==
    LET rows == {r \in [DOMAIN columns -> UNION Range(cells)] :
                    \A i \in DOMAIN columns : r[i] \in cells[i]}
    IN  {[columns |-> columns, rows |-> rs] :
            rs \in UNION {[1..k -> rows] : k \in 0..n}}

\* The ground-truth event logs: read with dtype='object', so every cell is a
\* non-empty str or NaN.
TruthFrames ==
    Frames(<<ActivityId, CaseCol>>, <<Ids, Cases>>, MaxRows)
        \cup Frames(<<CaseCol>>, <<{<<"b">>, NaN}>>, MaxRows)

\* The tables a query can return: the ground truth's columns in either order,
\* a column missing, another column; NULL and the empty string where noted.
PredFrames ==
    Frames(<<ActivityId, CaseCol>>, <<Ids, Cases>>, MaxRows)
        \cup Frames(<<CaseCol, ActivityId>>, <<Cases, Ids>>, MaxRows)
        \cup Frames(<<CaseCol>>, <<{<<"b">>, None}>>, MaxRows)
        \cup Frames(<<ActivityId, CostCol>>, <<Ids, {<<"b">>}>>, MaxRows)

\* The agent's responses: prose around a statement, prose whose first word
\* ends in a keyword, and text without any keyword.
Responses ==
    {<<"h", "i", " ", "S", "E", "L", "E", "C", "T", " ", "*", ";", " ", "b">>,
     <<"T", "h", "i", "s", " ", "S", "E", "L", "E", "C", "T", " ", "1", ";">>,
     <<"h", "e", "l", "l", "o">>}

\* The exceptions a query execution raises, as class name and message, and
\* the stage that raises: sqlite3.connect, or read_sql_query inside the with
\* block.
Failures ==
    {[name |-> "DatabaseError", message |-> "near SELEKT: syntax error",
      stage |-> "read"],
     [name |-> "OperationalError", message |-> "unable to open database file",
      stage |-> "connect"],
     [name |-> "TypeError", message |-> "", stage |-> "read"]}

\* The builds of pandas, by what apply returns on a frame without rows.
Builds == {"reduce", "copy"}

-----------------------------------------------------------------------------
(* utils/db.py: run_query_and_return_df                                    *)

\* What the database does with a query: a result table or an exception.
QueryOutcomes ==
    {[kind |-> "df", df |-> f] : f \in PredFrames}
        \cup {[kind |-> "raise", exc |-> e] : e \in Failures}

\* The connection after the call: closed by conn.close() when read_sql_query
\* returned; none when connect raised; left open when read_sql_query raised,
\* since the with block of a sqlite3 connection ends the transaction without
\* closing and the exception skips conn.close().
run_query_and_return_df(outcome) ==
    [result |-> outcome,
     conn   |-> IF outcome.kind = "df" THEN "closed"
                ELSE IF outcome.exc.stage = "connect" THEN "none"
                ELSE "open"]

-----------------------------------------------------------------------------
(* utils/apps.py: SimpleApp                                                *)

\* state[key] = value on the AgentState dict
SetItem(d, key, value) == (key :> value) @@ d

\* error_message without the exception's class name.
error_message_no_class(e) == <<"SQL_ERROR: ", e.message>>

\* f"SQL_ERROR: {type(e).__name__}: {str(e)}"
error_message(e) == <<"SQL_ERROR: ", e.name, ": ", e.message>>

EmptyDict == <<>>

\* No direct call of a metric is in progress (the metrics are reached through
\* calculate_metrics only).
NoCall == [op |-> "none"]

Init ==
    /\ pc = "idle"
    /\ state = EmptyDict
    /\ df_true \in TruthFrames
    /\ conn = "none"
    /\ calls = <<>>
    /\ escaped = "none"
    /\ engine = NoCall

\* SimpleApp.invoke: a pass starts at the entry point with the caller's state.
invoke ==
    /\ pc \in {"idle", "done", "raised"}
    /\ pc' = "agent"
    /\ state' = [messages |-> <<"prompt">>]
    /\ conn' = "none"
    /\ calls' = <<>>
    /\ escaped' = "none"
    /\ UNCHANGED <<df_true, engine>>

get_sql_query ==
    /\ pc = "agent"
    /\ \E content \in Responses :
          state' = SetItem(state, "agent_response", content)
    /\ calls' = Append(calls, <<"llm_model.invoke", state["messages"][1]>>)
    /\ pc' = "sqlexecuter"
    /\ UNCHANGED <<df_true, conn, escaped, engine>>

\* The value run_sql_query stores under 'sqlexecuter' for a query outcome.
sqlexecuter_value(outcome) ==
    IF outcome.kind = "df"
    THEN [type |-> "DataFrame", df |-> outcome.df]
    ELSE [type |-> "str", text |-> error_message(outcome.exc)]

\* run_sql_query resubmitting the query after a failure.
run_sql_query_retry ==
    /\ pc = "sqlexecuter"
    /\ \E agent_response \in {extract_sql_statement(state["agent_response"])} :
           \E outcome \in QueryOutcomes :
              LET ran == run_query_and_return_df(outcome)
              IN  /\ state' = SetItem(state, "sqlexecuter",
                                      sqlexecuter_value(ran.result))
                  /\ conn' = ran.conn
                  /\ calls' = calls \o <<<<"extract_sql_statement", agent_response>>,
                                         <<"run_query_and_return_df", agent_response, outcome>>>>
                  /\ pc' = IF outcome.kind = "raise" /\ Len(calls) < 3
                           THEN "sqlexecuter" ELSE "dfcomparator"
    /\ UNCHANGED <<df_true, escaped, engine>>

run_sql_query ==
    /\ pc = "sqlexecuter"
    /\ \E agent_response \in {extract_sql_statement(state["agent_response"])} :
           \E outcome \in QueryOutcomes :
              LET ran == run_query_and_return_df(outcome)
              IN  /\ state' = SetItem(state, "sqlexecuter",
                                      sqlexecuter_value(ran.result))
                  /\ conn' = ran.conn
                  /\ calls' = calls \o <<<<"extract_sql_statement", agent_response>>,
                                         <<"run_query_and_return_df", agent_response, outcome>>>>
    /\ pc' = "dfcomparator"
    /\ UNCHANGED <<df_true, escaped, engine>>

ZeroReport ==
    [precision |-> 0, recall |-> 0, f1 |-> 0,
     relaxed_precision |-> 0, relaxed_recall |-> 0, relaxed_f1 |-> 0,
     textual_precision |-> 0, textual_recall |-> 0, textual_f1 |-> 0]

\* metrics_result scoring a failed execution as all zeros.
metrics_result_zero(value, truth, b) ==
    IF value.type # "str"
    THEN dataframe_similarity(truth, value.df, b)
    ELSE [kind |-> "dict", value |-> ZeroReport]

\* What calculate_metrics does with the executor's value: the report it
\* stores, or the exception that leaves it.
metrics_result(value, truth, b) ==
    IF value.type # "str"
    THEN dataframe_similarity(truth, value.df, b)
    ELSE [kind |-> "dict", value |-> EmptyDict]

calculate_metrics ==
    /\ pc = "dfcomparator"
    /\ \E b \in Builds :
       \E r \in {metrics_result(state["sqlexecuter"], df_true, b)} :
          /\ calls' = IF state["sqlexecuter"].type # "str"
                      THEN calls \o <<<<"read_csv", "ground_truth">>,
                                      <<"dataframe_similarity", b>>>>
                      ELSE calls
          /\ IF r.kind = "raise"
             THEN /\ pc' = "raised"
                  /\ escaped' = r.exc
                  /\ state' = state
             ELSE /\ pc' = "done"
                  /\ escaped' = escaped
                  /\ state' = SetItem(state, "result", r.value)
    /\ UNCHANGED <<df_true, conn, engine>>

Next == invoke \/ get_sql_query \/ run_sql_query \/ calculate_metrics

Spec == Init /\ [][Next]_vars

-----------------------------------------------------------------------------
(* utils/metrics.py called directly: the three metrics are module-level    *)
(* functions, and a caller can hand them any two frames and any threshold. *)

\* Column names that hold the separator of the row strings.
SemiCol1 == <<"1", ";", "c", "d">>

SemiCol2 == <<"2", ";", "c", "d">>

\* The frames of a direct call: the event-log layout; the same with another
\* second column; one column whose cells can be the empty string or missing;
\* two columns named like row strings.
EngineFrames ==
    Frames(<<ActivityId, CaseCol>>, <<Ids, Cases>>, MaxRows)
        \cup Frames(<<ActivityId, CostCol>>, <<{<<"1">>}, {<<"b">>}>>, MaxRows)
        \cup Frames(<<CaseCol>>, <<{<<>>, <<"b">>, NaN}>>, MaxRows)
        \cup Frames(<<SemiCol1, SemiCol2>>, <<{<<"1">>}, {<<"c", "d">>}>>, MaxRows)

\* The thresholds of a direct call: the default and the largest.
Thresholds == {Threshold, <<1, 1>>}

EngineInit ==
    /\ pc = "idle"
    /\ state = EmptyDict
    /\ df_true = [columns |-> <<>>, rows |-> <<>>]
    /\ conn = "none"
    /\ calls = <<>>
    /\ escaped = "none"
    /\ \E df1 \in EngineFrames : \E df2 \in EngineFrames :
          engine = [op |-> "none", df1 |-> df1, df2 |-> df2, again |-> FALSE]

\* caller_frames with df2.fillna("", inplace=True) reaching the caller's frame.
caller_frames_filled(op, df1, df2) ==
    IF op = "textual" THEN <<df1, fillna(df2)>> ELSE <<df1, df2>>

\* The caller's two frames after a call of the metric op.  Every statement
\* that changes a frame works on a new object bound to the local name:
\* sort_values(...).reset_index(drop=True) and drop(...) return copies, the
\* 'combined' column is added to those copies (metrics.py 26-31, 58-70), and
\* fillna(inplace=True) fills the sorted copy of df2 (metrics.py 100-106).
caller_frames(op, df1, df2) == <<df1, df2>>

\* The caller's record of a returned (or raising) call.
Called(op, result) ==
    [op |-> op,
     df1 |-> caller_frames(op, engine.df1, engine.df2)[1],
     df2 |-> caller_frames(op, engine.df1, engine.df2)[2],
     again |-> engine.again,
     result |-> result]

\* The caller may call: it has not called yet, or it scores again and again.
MayCall == engine.op = "none" \/ engine.again

call_full ==
    /\ MayCall
    /\ engine' = Called("full", dataframe_similiarity_full(engine.df1, engine.df2))
    /\ UNCHANGED <<pc, state, df_true, conn, calls, escaped>>

call_relaxed ==
    /\ MayCall
    /\ engine' = Called("relaxed", dataframe_similarity_relaxed(engine.df1, engine.df2))
    /\ UNCHANGED <<pc, state, df_true, conn, calls, escaped>>

call_textual ==
    /\ MayCall
    /\ \E threshold \in Thresholds : \E b \in Builds :
          engine' = [threshold |-> threshold, build |-> b]
                      @@ Called("textual",
                                dataframe_similiarity_textual(engine.df1, engine.df2,
                                                              threshold, b))
    /\ UNCHANGED <<pc, state, df_true, conn, calls, escaped>>

EngineNext == call_full \/ call_relaxed \/ call_textual

SpecEngine == EngineInit /\ [][EngineNext]_vars

\* A caller that keeps scoring the pair it holds, with any of the metrics.
RepeatFrames ==
    Frames(<<ActivityId, CaseCol>>, <<{<<"1">>}, Cases>>, MaxRows)
        \cup Frames(<<CaseCol>>, <<{<<>>, <<"b">>, NaN}>>, MaxRows)

RepeatInit ==
    /\ pc = "idle"
    /\ state = EmptyDict
    /\ df_true = [columns |-> <<>>, rows |-> <<>>]
    /\ conn = "none"
    /\ calls = <<>>
    /\ escaped = "none"
    /\ \E df1 \in RepeatFrames : \E df2 \in RepeatFrames :
          engine = [op |-> "none", df1 |-> df1, df2 |-> df2, again |-> TRUE]

SpecRepeat == RepeatInit /\ [][EngineNext]_vars

-----------------------------------------------------------------------------
(* utils/helper.py called directly: extract_sql_statement on any text      *)

\* The characters of the texts: the keyword IS in two cases, a word
\* character, a blank, the terminator and a newline.
Alphabet == {"i", "S", "x", " ", ";", "\n"}

\* The texts of at most n characters.
Texts(n) == UNION {[1..k -> Alphabet] : k \in 0..n}

ExtractInit ==
    /\ pc = "idle"
    /\ state = EmptyDict
    /\ df_true = [columns |-> <<>>, rows |-> <<>>]
    /\ conn = "none"
    /\ calls = <<>>
    /\ escaped = "none"
    /\ \E text \in Texts(MaxText) : engine = [op |-> "none", text |-> text]

call_extract_sql_statement ==
    /\ engine.op = "none"
    /\ engine' = [op |-> "extract", text |-> engine.text,
                  result |-> extract_sql_statement(engine.text)]
    /\ UNCHANGED <<pc, state, df_true, conn, calls, escaped>>

ExtractNext == call_extract_sql_statement

SpecExtract == ExtractInit /\ [][ExtractNext]_vars

-----------------------------------------------------------------------------
(* utils/db.py called directly: sort_tables_by_dependency                  *)

TableNames == {"A", "B", "C"}

ColumnNames == {"x", "y"}

\* The relationships dicts, as the sequence of their items in insertion
\* order: the key (table, column) and the referenced table.  Keys are
\* distinct, as in any dict.
Relationships(n) ==
    LET items == [table : TableNames, column : ColumnNames, ref : TableNames]
    IN  {r \in UNION {[1..k -> items] : k \in 1..n} :
            \A i, j \in DOMAIN r :
                (r[i].table = r[j].table /\ r[i].column = r[j].column) => i = j}

all_tables(relationships) ==
    {relationships[i].table : i \in DOMAIN relationships}
        \cup {relationships[i].ref : i \in DOMAIN relationships}

\* The keys of dependency_map in the order they were inserted: each table
\* at its first item.
RECURSIVE dependency_keys(_)
dependency_keys(relationships) ==
    IF relationships = <<>> THEN <<>>
    ELSE LET front == SubSeq(relationships, 1, Len(relationships) - 1)
             table == relationships[Len(relationships)].table
         IN  IF \E i \in DOMAIN front : front[i].table = table
             THEN dependency_keys(front)
             ELSE Append(dependency_keys(front), table)

independent_tables(relationships) ==
    all_tables(relationships) \ Range(dependency_keys(relationships))

\* list(a_set): the elements in an order the hash seed of the run decides.
Orders(S) ==
    {f \in [1..Cardinality(S) -> S] : \A i, j \in DOMAIN f : f[i] = f[j] => i = j}

\* sorted_tables for one order of the independent tables: the dependent
\* tables follow in the order of dependency_map (none is in the list yet).
sort_tables_by_dependency(relationships, independent) ==
    independent \o dependency_keys(relationships)

TablesInit ==
    /\ pc = "idle"
    /\ state = EmptyDict
    /\ df_true = [columns |-> <<>>, rows |-> <<>>]
    /\ conn = "none"
    /\ calls = <<>>
    /\ escaped = "none"
    /\ \E relationships \in Relationships(MaxRels) :
          engine = [op |-> "none", relationships |-> relationships]

call_sort_tables_by_dependency ==
    /\ engine.op = "none"
    /\ \E independent \in Orders(independent_tables(engine.relationships)) :
          engine' = [op |-> "sort_tables",
                     relationships |-> engine.relationships,
                     result |-> sort_tables_by_dependency(engine.relationships,
                                                          independent)]
    /\ UNCHANGED <<pc, state, df_true, conn, calls, escaped>>

TablesNext == call_sort_tables_by_dependency

SpecTables == TablesInit /\ [][TablesNext]_vars

-----------------------------------------------------------------------------
(* utils/helper.py called directly: create_unique_file and save_results    *)

\* The four artifacts of one save_results call, in the order written.
Artifacts == <<"PROMPT", "SQL", "EVENTLOG", "METRICS">>

PromptFiles == {"p", "q"}

\* A path of the output directory: NNN_<prompt_file>_<artifact>.
Path(index, prompt_file, artifact) == <<index, prompt_file, artifact>>

\* create_unique_file counting the existing files of that name.
create_unique_file_count(files, prompt_file, artifact) ==
    Cardinality({path \in DOMAIN files :
                    path[2] = prompt_file /\ path[3] = artifact}) + 1

\* The index create_unique_file settles on: it counts up from 1 while the
\* path exists.
create_unique_file(files, prompt_file, artifact) ==
    CHOOSE index \in 1..(Cardinality(DOMAIN files) + 1) :
        /\ Path(index, prompt_file, artifact) \notin DOMAIN files
        /\ \A i \in 1..(index - 1) : Path(i, prompt_file, artifact) \in DOMAIN files

\* open(file_path, "w") and the write: the file holds what this call wrote.
WriteFile(files, path, content) ==
    [q \in DOMAIN files \cup {path} |-> IF q = path THEN content ELSE files[q]]

\* The directory after the first n artifacts of a save_results call.
RECURSIVE Saved(_, _, _, _)
Saved(files, prompt_file, content, n) ==
    IF n = 0 THEN files
    ELSE LET before == Saved(files, prompt_file, content, n - 1)
         IN  WriteFile(before,
                       Path(create_unique_file(before, prompt_file, Artifacts[n]),
                            prompt_file, Artifacts[n]),
                       content)

\* The directories earlier runs left: for each prompt file, complete sets of
\* the four artifacts under some of the indexes (a run can have been removed).
Directories ==
    {[path \in UNION {{Path(i, pf, Artifacts[a]) :
                          i \in kept[pf], a \in DOMAIN Artifacts} :
                       pf \in PromptFiles}
         |-> 0] :
        kept \in [PromptFiles -> SUBSET (1..MaxIndex)]}

FilesInit ==
    /\ pc = "idle"
    /\ state = EmptyDict
    /\ df_true = [columns |-> <<>>, rows |-> <<>>]
    /\ conn = "none"
    /\ calls = <<>>
    /\ escaped = "none"
    /\ \E files \in Directories :
          engine = [op |-> "none", files |-> files, ncalls |-> 0]

save_results ==
    /\ engine.ncalls < MaxCalls
    /\ \E prompt_file \in PromptFiles :
          engine' = [op |-> "save_results",
                     prompt_file |-> prompt_file,
                     ncalls |-> engine.ncalls + 1,
                     files |-> Saved(engine.files, prompt_file,
                                     engine.ncalls + 1, Len(Artifacts))]
    /\ UNCHANGED <<pc, state, df_true, conn, calls, escaped>>

FilesNext == save_results

SpecFiles == FilesInit /\ [][FilesNext]_vars

-----------------------------------------------------------------------------
(* Properties                                                              *)

\* The names of the components called so far in this pass, in order.
CallNames == [i \in DOMAIN calls |-> calls[i][1]]

\* The executor step of this pass has run.
Executed == pc \in {"dfcomparator", "done", "raised"}

\* The scoring step of this pass has run (it stored a report or raised).
Finished == pc \in {"done", "raised"}

\* The query of this pass failed / returned a table.
ExecutionFailed == Executed /\ state["sqlexecuter"].type = "str"

ExecutionSucceeded == Executed /\ state["sqlexecuter"].type = "DataFrame"

\* What the database did with the query of this pass.
Outcome == calls[3][3]

\* C1: the orchestrator never raises to its caller: whatever the response
\* and the query outcome, no exception leaves the pass, and a finished pass
\* is in Scored with state['result'] set.
C1_NeverRaises ==
    /\ pc # "raised"
    /\ escaped = "none"
    /\ pc = "done" => "result" \in DOMAIN state

\* C2: when the query execution fails, the pass ends in Scored with the
\* empty report (not an all-zero one), and neither the ground truth is
\* loaded nor the similarity engine called.
C2_FailureGivesEmptyReport ==
    (Finished /\ ExecutionFailed) =>
        /\ pc = "done"
        /\ DOMAIN state["result"] = {}
        /\ "read_csv" \notin Range(CallNames)
        /\ "dataframe_similarity" \notin Range(CallNames)

C2_Witness == pc = "done" /\ ExecutionFailed

\* C3: a query whose execution raises leaves a failure outcome that carries
\* the exception's class name and its message, and the exception does not
\* leave the executor step; a query that executes leaves its result table.
C3_ExecutorCatchesAndTags ==
    Executed =>
        /\ Outcome.kind = "raise" =>
              /\ state["sqlexecuter"].type = "str"
              /\ Len(state["sqlexecuter"].text) = 4
              /\ state["sqlexecuter"].text[2] = Outcome.exc.name
              /\ state["sqlexecuter"].text[4] = Outcome.exc.message
        /\ Outcome.kind = "df" =>
              /\ state["sqlexecuter"].type = "DataFrame"
              /\ state["sqlexecuter"].df = Outcome.df
        /\ pc = "dfcomparator" => escaped = "none"

C3_Witness == pc = "dfcomparator" /\ Outcome.kind = "raise"

\* C4: in every pass the steps run in the order extraction, execution,
\* scoring, never back: the extractor and the executor are called exactly
\* once per pass, and a failed execution is not resubmitted.
C4_FixedOrderNoRetry ==
    LET order == <<"llm_model.invoke", "extract_sql_statement",
                   "run_query_and_return_df", "read_csv", "dataframe_similarity">>
    IN  /\ Len(calls) <= Len(order)
        /\ CallNames = SubSeq(order, 1, Len(calls))
        /\ pc \in {"idle", "agent"} => calls = <<>>
        /\ pc = "sqlexecuter" => Len(calls) = 1
        /\ pc = "dfcomparator" => Len(calls) = 3
        /\ Finished => Len(calls) = IF ExecutionFailed THEN 3 ELSE 5

C4_Witness == pc = "done" /\ ExecutionFailed /\ Len(calls) = 3

\* The table the query of this pass returned.
PredFrame == state["sqlexecuter"].df

\* The scoring step has run on a table.
ScoredTable == Finished /\ ExecutionSucceeded

ReportKeys ==
    {"precision", "recall", "f1", "relaxed_precision", "relaxed_recall",
     "relaxed_f1", "textual_precision", "textual_recall", "textual_f1"}

IsNumericReport(r) ==
    /\ DOMAIN r = ReportKeys
    /\ \A k \in ReportKeys : r[k] \in 0..1000

\* n / d rounded to 3 decimals, 0 when the denominator is 0.
Ratio(n, d) == IF d > 0 THEN Round3(<<n, d>>) ELSE 0

\* The frame df with its columns put in the order p (a permutation of the
\* column positions), every cell staying under its column name.
ColumnOrders(n) == {p \in [1..n -> 1..n] : \A i, j \in 1..n : p[i] = p[j] => i = j}

Permute(df, p) ==
    [columns |-> [i \in DOMAIN df.columns |-> df.columns[p[i]]],
     rows    |-> [r \in DOMAIN df.rows |->
                    [i \in DOMAIN df.columns |-> df.rows[r][p[i]]]]]

\* The frame df with the row r once more.
Repeated(df, r) == [columns |-> df.columns, rows |-> Append(df.rows, r)]

\* C5: when the column-name sets differ, the aggregate scoring surfaces a
\* non-numeric report for the comparison: nothing is raised, the pass is
\* Scored, and the report holds no numeric precision, recall or f1.
C5_MismatchIsNonNumericReport ==
    (ScoredTable /\ ColumnSet(df_true) # ColumnSet(PredFrame)) =>
        /\ pc = "done"
        /\ escaped = "none"
        /\ ~IsNumericReport(state["result"])

\* C6: each of the three metrics gives the SchemaMismatch outcome when the
\* column-name sets differ, and never when they are equal.
C6_EachMetricChecksColumns ==
    ScoredTable =>
        \A b \in Builds :
            \A result \in {dataframe_similiarity_full(df_true, PredFrame),
                           dataframe_similarity_relaxed(df_true, PredFrame),
                           dataframe_similiarity_textual(df_true, PredFrame,
                                                         Threshold, b)} :
                (ColumnSet(df_true) # ColumnSet(PredFrame))
                    <=> (result = SchemaMismatch)

\* C7: relaxed match gives the SchemaMismatch outcome whenever activity_id
\* is absent from either dataset.
C7_RelaxedNeedsActivityId ==
    (ScoredTable /\ (ActivityId \notin ColumnSet(df_true)
                     \/ ActivityId \notin ColumnSet(PredFrame))) =>
        dataframe_similarity_relaxed(df_true, PredFrame) = SchemaMismatch

\* C8: in the report of a successful query, exact precision is
\* |pred /\ truth| / |pred| and exact recall is |pred /\ truth| / |truth|,
\* over the distinct rows (false positives are the predicted-only rows).
C8_PrecisionIsOverPredicted ==
    (pc = "done" /\ ExecutionSucceeded) =>
        LET pred  == Range(PredFrame.rows)
            truth == Range(df_true.rows)
        IN  /\ state["result"]["precision"]
                  = Ratio(Cardinality(pred \cap truth), Cardinality(pred))
            /\ state["result"]["recall"]
                  = Ratio(Cardinality(pred \cap truth), Cardinality(truth))

\* C9: for a column-compatible pair, putting the columns of either dataset
\* in another order changes the result of none of the three metrics.
C9_ColumnOrderIndependent ==
    (ScoredTable /\ ColumnSet(df_true) = ColumnSet(PredFrame)) =>
        \A p \in ColumnOrders(Len(PredFrame.columns)) :
            /\ dataframe_similiarity_full(df_true, Permute(PredFrame, p))
                  = dataframe_similiarity_full(df_true, PredFrame)
            /\ dataframe_similiarity_full(Permute(df_true, p), PredFrame)
                  = dataframe_similiarity_full(df_true, PredFrame)
            /\ dataframe_similarity_relaxed(df_true, Permute(PredFrame, p))
                  = dataframe_similarity_relaxed(df_true, PredFrame)
            /\ dataframe_similarity_relaxed(Permute(df_true, p), PredFrame)
                  = dataframe_similarity_relaxed(df_true, PredFrame)
            /\ \A b \in Builds :
                  /\ dataframe_similiarity_textual(df_true, Permute(PredFrame, p),
                                                   Threshold, b)
                        = dataframe_similiarity_textual(df_true, PredFrame,
                                                        Threshold, b)
                  /\ dataframe_similiarity_textual(Permute(df_true, p), PredFrame,
                                                   Threshold, b)
                        = dataframe_similiarity_textual(df_true, PredFrame,
                                                        Threshold, b)

\* C10: exact match works on the sets A and B of distinct rows of its two
\* arguments (a row being the tuple of its cells): TP = |A /\ B|,
\* FP = |A \ B|, FN = |B \ A|, precision = TP/(TP+FP), recall = TP/(TP+FN),
\* f1 = 2PR/(P+R) = 2TP/(2TP+FP+FN), each 0 when its denominator is 0; and
\* repeating an existing row of either dataset leaves the result unchanged.
C10_ExactOnDistinctRows ==
    (ScoredTable /\ ColumnSet(df_true) = ColumnSet(PredFrame)) =>
        LET A  == Range(df_true.rows)
            B  == Range(PredFrame.rows)
            TP == Cardinality(A \cap B)
            FP == Cardinality(A \ B)
            FN == Cardinality(B \ A)
            expected == [kind |-> "dict",
                         precision |-> Ratio(TP, TP + FP),
                         recall    |-> Ratio(TP, TP + FN),
                         f1        |-> Ratio(2 * TP, 2 * TP + FP + FN)]
        IN  /\ SetCounts(df_true, PredFrame) = [tp |-> TP, fp |-> FP, fn |-> FN]
            /\ dataframe_similiarity_full(df_true, PredFrame) = expected
            /\ pc = "done" =>
                  /\ state["result"]["precision"] = expected.precision
                  /\ state["result"]["recall"] = expected.recall
                  /\ state["result"]["f1"] = expected.f1
            /\ \A r \in A :
                  dataframe_similiarity_full(Repeated(df_true, r), PredFrame)
                      = expected
            /\ \A r \in B :
                  dataframe_similiarity_full(df_true, Repeated(PredFrame, r))
                      = expected

C10_Witness ==
    /\ pc = "done"
    /\ ExecutionSucceeded
    /\ Len(df_true.rows) > Cardinality(Range(df_true.rows))
    /\ Range(df_true.rows) \cap Range(PredFrame.rows) # {}
    /\ Range(PredFrame.rows) \ Range(df_true.rows) # {}

-----------------------------------------------------------------------------
(* Properties of the metrics, on direct calls                              *)

\* A direct call of the metric op has returned or raised.
Returned(op) == engine.op = op

One == [kind |-> "dict", precision |-> 1000, recall |-> 1000, f1 |-> 1000]

Nought == [kind |-> "dict", precision |-> 0, recall |-> 0, f1 |-> 0]

HasMissing(df) ==
    \E r \in DOMAIN df.rows : \E i \in DOMAIN df.rows[r] : isna(df.rows[r][i])

\* The row strings the textual metric compares: df2's after fillna.
RowStrings(df) == [r \in DOMAIN df.rows |-> join(fillna(df).rows[r])]

\* C11 (as stated): comparing any dataset to itself yields
\* precision = recall = f1 = 1.0 under every metric (textual at any
\* threshold up to 1.0).
C11_IdentityIsPerfect ==
    (engine.op # "none" /\ engine.df1 = engine.df2) => engine.result = One

\* C11 (amended): comparing a dataset with at least one row and no missing
\* cell to itself yields precision = recall = f1 = 1.0 under exact match,
\* under relaxed match when it has the activity_id column and another one,
\* and under textual match at any threshold up to 1.0 when no row's joined
\* string is empty; without rows, exact and relaxed match yield 0.
C11_IdentityOnRows ==
    (engine.op # "none" /\ engine.df1 = engine.df2 /\ ~HasMissing(engine.df1)) =>
        LET expected == IF engine.df1.rows # <<>> THEN One ELSE Nought
        IN  /\ Returned("full") => engine.result = expected
            /\ (Returned("relaxed") /\ ActivityId \in ColumnSet(engine.df1)
                   /\ Len(engine.df1.columns) > 1) =>
                  engine.result = expected
            /\ (Returned("textual") /\ engine.df1.rows # <<>>
                   /\ <<>> \notin Range(RowStrings(engine.df1))) =>
                  engine.result = One

C11_Witness ==
    /\ Returned("textual")
    /\ engine.threshold = <<1, 1>>
    /\ engine.df1 = engine.df2
    /\ Cardinality(Range(engine.df1.rows)) = 2
    /\ engine.result = One

\* The two frames have the same column names.
Compatible == ColumnSet(engine.df1) = ColumnSet(engine.df2)

\* C12: when both datasets have no rows (and the same column names), each
\* metric returns precision = recall = f1 = 0 as numbers: nothing is raised
\* and no other value is returned.
C12_EmptyPairScoresZero ==
    (engine.op # "none" /\ Compatible
        /\ engine.df1.rows = <<>> /\ engine.df2.rows = <<>>) =>
        engine.result = Nought

\* The distinct rows of df, and the distinct rows once activity_id is dropped.
Rows(df) == Range(df.rows)

Projected(df) == Range(DropColumn(df, ActivityId).rows)

BothHaveActivityId ==
    ActivityId \in ColumnSet(engine.df1) /\ ActivityId \in ColumnSet(engine.df2)

\* C13 (as stated): for a column-compatible pair in which no full row of one
\* dataset equals a full row of the other, both exact and relaxed match
\* yield precision = recall = f1 = 0.0.
C13_DisjointScoresZero ==
    ((Returned("full") \/ Returned("relaxed")) /\ Compatible
        /\ Rows(engine.df1) \cap Rows(engine.df2) = {}) =>
        engine.result = Nought

\* C13 (amended): for a column-compatible pair, exact match yields
\* precision = recall = f1 = 0.0 when no full row of one dataset equals a
\* full row of the other; relaxed match yields 0.0 when both datasets have
\* activity_id and no row of one equals a row of the other once activity_id
\* is dropped (rows that differ only in activity_id are a relaxed match).
C13_DisjointAsCompared ==
    /\ (Returned("full") /\ Compatible
           /\ Rows(engine.df1) \cap Rows(engine.df2) = {}) =>
          engine.result = Nought
    /\ (Returned("relaxed") /\ Compatible /\ BothHaveActivityId
           /\ Projected(engine.df1) \cap Projected(engine.df2) = {}) =>
          engine.result = Nought
    /\ (Returned("relaxed") /\ Compatible /\ BothHaveActivityId
           /\ Projected(engine.df1) \cap Projected(engine.df2) # {}) =>
          engine.result # Nought

C13_Witness ==
    /\ Returned("relaxed")
    /\ BothHaveActivityId
    /\ engine.df1.rows # <<>>
    /\ engine.df2.rows # <<>>
    /\ Projected(engine.df1) \cap Projected(engine.df2) = {}
    /\ engine.result = Nought

\* The cells of row r of df other than the one under activity_id.
OtherCells(df, r) ==
    LET cols == {i \in DOMAIN df.columns : df.columns[i] # ActivityId}
    IN  {<<df.columns[i], r[i]>> : i \in cols}

\* The distinct rows of df seen without activity_id.
OtherRows(df) == {OtherCells(df, r) : r \in Rows(df)}

ExactTP == SetCounts(engine.df1, engine.df2).tp

RelaxedTP ==
    SetCounts(DropColumn(engine.df1, ActivityId),
              DropColumn(engine.df2, ActivityId)).tp

C15_RelaxedIsExactWithoutActivityId ==
    (Returned("relaxed") /\ BothHaveActivityId) =>
        LET d1 == DropColumn(engine.df1, ActivityId)
            d2 == DropColumn(engine.df2, ActivityId)
        IN  /\ engine.result = dataframe_similiarity_full(d1, d2)
            /\ (engine.result = SchemaMismatch) <=> ~Compatible
            /\ Compatible =>
                  LET c == SetCounts(d1, d2)
                  IN  /\ c.tp + c.fp = Cardinality(OtherRows(engine.df1))
                      /\ c.tp + c.fn = Cardinality(OtherRows(engine.df2))
                      /\ c.tp = Cardinality(OtherRows(engine.df1)
                                               \cap OtherRows(engine.df2))

C15_Witness ==
    /\ Returned("relaxed")
    /\ BothHaveActivityId
    /\ Cardinality(Rows(engine.df1)) = 2
    /\ Cardinality(OtherRows(engine.df1)) = 1
    /\ Cardinality(Rows(engine.df2)) = 1
    /\ engine.result = One

\* The similarity of a label and a pred as a fraction:
\* 1 - distance / max(len), and 0 when both strings are empty.
Similarity(label, pred) ==
    IF MaxLen(label, pred) = 0 THEN Zero
    ELSE <<MaxLen(label, pred) - distance(label, pred), MaxLen(label, pred)>>

\* The labels of df1 whose best similarity over the preds of df2 reaches the
\* threshold, each label judged on its own (a pred can serve many labels).
MatchedLabels(df1, df2, threshold) ==
    {i \in DOMAIN df1.rows :
        \E j \in DOMAIN df2.rows :
            FracLeq(threshold, Similarity(RowStrings(df1)[i], RowStrings(df2)[j]))}

\* A textual call on a column-compatible pair whose ground truth is complete.
TextualScored ==
    Returned("textual") /\ Compatible /\ ~HasMissing(engine.df1)

MaxRowCount ==
    IF Len(engine.df1.rows) >= Len(engine.df2.rows)
    THEN Len(engine.df1.rows) ELSE Len(engine.df2.rows)

\* C16: textual match scores each ground-truth row on its own: a label is a
\* true positive iff the maximum over all predicted rows of
\* 1 - distance/max(len) is >= the threshold (inclusive), and a false
\* positive otherwise, several labels being free to match the same predicted
\* row; so precision is (matched labels) / (labels).
C16_LabelsScoredIndependently ==
    TextualScored =>
        /\ engine.result.kind = "dict"
        /\ engine.result.precision
              = Ratio(Cardinality(MatchedLabels(engine.df1, engine.df2,
                                                engine.threshold)),
                      Len(engine.df1.rows))

\* C17: textual false negatives are max(#labels, #preds) - TP, the counts
\* being row counts with duplicates kept, so recall is
\* TP / max(#labels, #preds) whenever that maximum is positive.
C17_RecallOverLargerRowCount ==
    (TextualScored /\ MaxRowCount > 0) =>
        /\ engine.result.kind = "dict"
        /\ engine.result.recall
              = Ratio(Cardinality(MatchedLabels(engine.df1, engine.df2,
                                                engine.threshold)),
                      MaxRowCount)

\* C18: the similarity of a label and a predicted row is
\* 1 - distance/max(len), and 0 when both strings are empty: a pair of empty
\* row strings never makes the textual metric fail with a division by zero.
C18_EmptyPairNeverDividesByZero ==
    (TextualScored
        /\ <<>> \in Range(RowStrings(engine.df1))
        /\ <<>> \in Range(RowStrings(engine.df2))) =>
        /\ engine.result # Raise("ZeroDivisionError")
        /\ engine.result.kind = "dict"

\* C19: every numeric precision, recall and f1 a metric returns for a
\* column-compatible pair lies in [0, 1].
C19_ScoresWithinUnitInterval ==
    (engine.op # "none" /\ Compatible /\ engine.result.kind = "dict") =>
        /\ engine.result.precision \in 0..1000
        /\ engine.result.recall \in 0..1000
        /\ engine.result.f1 \in 0..1000

-----------------------------------------------------------------------------
(* Properties of the report                                                *)

\* C20: in the Scored state the report has one of exactly two shapes: the
\* empty mapping (after a failed execution), or a flat mapping with exactly
\* the nine keys precision, recall, f1, relaxed_*, textual_*, each bound to a
\* number (after a scored table); no partially filled report is produced.
C20_ReportEmptyOrComplete ==
    pc = "done" =>
        /\ "result" \in DOMAIN state
        /\ \/ /\ DOMAIN state["result"] = {}
              /\ ExecutionFailed
           \/ /\ DOMAIN state["result"] = ReportKeys
              /\ \A k \in ReportKeys : state["result"][k] \in Int
              /\ ExecutionSucceeded

C20_Witness ==
    /\ pc = "done"
    /\ ExecutionSucceeded
    /\ DOMAIN state["result"] = ReportKeys
    /\ state["result"]["precision"] = 0
    /\ state["result"]["relaxed_recall"] = 500
    /\ state["result"]["textual_f1"] = 1000

-----------------------------------------------------------------------------
(* Properties of extract_sql_statement, on direct calls                    *)

\* The positions of text where a keyword occurs: one of the keywords, in any
\* case, not followed by a word character.
KeywordStarts(text) ==
    {s \in DOMAIN text : \E k \in DOMAIN Keywords : KeywordAt(text, s, Keywords[k])}

\* The keyword that occurs at position s (no keyword is a prefix of another).
KeywordOf(text, s) ==
    Keywords[CHOOSE k \in DOMAIN Keywords : KeywordAt(text, s, Keywords[k])]

\* The positions of the ';' after the keyword that occurs at s.
SemisAfter(text, s) ==
    {e \in DOMAIN text : e >= s + Len(KeywordOf(text, s)) /\ text[e] = ";"}

\* The keyword occurrences that have a ';' somewhere after them.
Terminated(text) == {s \in KeywordStarts(text) : SemisAfter(text, s) # {}}

Least(S) == CHOOSE x \in S : \A y \in S : x <= y

C22_NoMatchReturnsInput ==
    Returned("extract") =>
        /\ engine.result \in Seq(Alphabet)
        /\ Terminated(engine.text) = {} => engine.result = engine.text

C22_Witness ==
    /\ Returned("extract")
    /\ KeywordStarts(engine.text) # {}
    /\ Terminated(engine.text) = {}
    /\ \E i \in DOMAIN engine.text : engine.text[i] = ";"
    /\ engine.result = engine.text

\* C27: on a match the returned statement starts at a whole-word keyword:
\* the matched keyword is never the tail of a longer word, so for a response
\* '<prose without ;> KEYWORD ... ;' the statement starts at that keyword.
C27_StartsAtWholeWord ==
    (Returned("extract") /\ Terminated(engine.text) # {}) =>
        LET whole == {s \in Terminated(engine.text) :
                         s = 1 \/ ~IsWordChar(engine.text[s - 1])}
        IN  IF whole = {} THEN engine.result = engine.text
            ELSE engine.result
                    = SubSeq(engine.text, Least(whole),
                             Least(SemisAfter(engine.text, Least(whole))))

-----------------------------------------------------------------------------
(* Properties of the connection                                            *)

\* C23: the database connection is a scoped resource: whether the query
\* succeeds or raises, the connection opened for an executor call is closed
\* before the executor step returns, so no connection is open during scoring
\* or in the Scored state.
C23_ConnectionClosedAfterExecutor ==
    Executed => conn # "open"

-----------------------------------------------------------------------------
(* Further properties of the metrics, on direct calls                      *)

\* C24: for every column-compatible pair, exchanging the two arguments of
\* exact match exchanges the returned precision and recall and leaves the
\* returned f1 unchanged, and f1 lies in [0, 1].
C24_SwapExchangesPrecisionAndRecall ==
    (Returned("full") /\ Compatible) =>
        LET swapped == dataframe_similiarity_full(engine.df2, engine.df1)
        IN  /\ engine.result.kind = "dict"
            /\ swapped.kind = "dict"
            /\ swapped.precision = engine.result.recall
            /\ swapped.recall = engine.result.precision
            /\ swapped.f1 = engine.result.f1
            /\ engine.result.f1 \in 0..1000

C24_Witness ==
    /\ Returned("full")
    /\ Compatible
    /\ engine.result.kind = "dict"
    /\ engine.result.precision = 1000
    /\ engine.result.recall = 500
    /\ engine.result.f1 = 667

\* The call that led to the state is the call of the same metric with the
\* same arguments as the one before it.
SameCallAgain ==
    /\ engine.op # "none"
    /\ engine'.op = engine.op
    /\ engine.op = "textual" =>
          /\ engine'.threshold = engine.threshold
          /\ engine'.build = engine.build

C26_NoPredictionsScoreZero ==
    TextualScored =>
        /\ engine.result.kind = "dict"
        /\ (engine.df1.rows # <<>> /\ engine.df2.rows = <<>>) =>
              engine.result = Nought

\* The counts the textual metric reaches on a call that raises nothing.
CountsOfCall ==
    TextualCounts(apply_join(sort_values(engine.df1, engine.df1.columns),
                             engine.build),
                  apply_join(fillna(sort_values(engine.df2, engine.df1.columns)),
                             engine.build),
                  engine.threshold)

\* C28: in textual match, for every column-compatible pair with at least one
\* predicted row: TP + FP is the number of label rows, 0 <= TP <= number of
\* label rows, FN >= 0, precision = TP / |labels|, and recall <= precision.
C28_TextualCountsBounded ==
    (TextualScored /\ engine.df2.rows # <<>>) =>
        /\ engine.result.kind = "dict"
        /\ LET c == CountsOfCall
               labels == Len(engine.df1.rows)
           IN  /\ c.tp + c.fp = labels
               /\ 0 <= c.tp /\ c.tp <= labels
               /\ c.fn >= 0
               /\ engine.result.precision = Ratio(c.tp, labels)
               /\ engine.result.recall <= engine.result.precision

-----------------------------------------------------------------------------
(* Properties of sort_tables_by_dependency                                 *)

\* The relationships have no cycle: the tables can be ranked so that every
\* table ranks above the tables it references.
Acyclic(relationships) ==
    \E rank \in [TableNames -> 1..Cardinality(TableNames)] :
        \A i \in DOMAIN relationships :
            rank[relationships[i].ref] < rank[relationships[i].table]

\* The position of table t in the list.
Position(list, t) == CHOOSE i \in DOMAIN list : list[i] = t

\* C29: for acyclic relationships (chains A -> B -> C included)
\* sort_tables_by_dependency returns every table named in the relationships
\* exactly once, each table after every table it references by foreign key.
C29_ReferencedTablesFirst ==
    (Returned("sort_tables") /\ Acyclic(engine.relationships)) =>
        /\ Range(engine.result) = all_tables(engine.relationships)
        /\ Len(engine.result) = Cardinality(all_tables(engine.relationships))
        /\ \A i \in DOMAIN engine.relationships :
              Position(engine.result, engine.relationships[i].ref)
                  < Position(engine.result, engine.relationships[i].table)

-----------------------------------------------------------------------------
(* Properties of save_results                                              *)

\* The paths the call that led to the next state wrote.
Written == {path \in DOMAIN engine'.files : engine'.files[path] = engine'.ncalls}

\* C30: create_unique_file returns the path NNN_<name> with the smallest
\* index >= 1 that does not exist yet, so a save_results call overwrites no
\* artifact written before it, and the four artifacts (PROMPT, SQL,
\* EVENTLOG, METRICS) it writes carry the same index.
C30_UniqueAlignedArtifacts ==
    [][/\ \A path \in DOMAIN engine.files :
             /\ path \in DOMAIN engine'.files
             /\ engine'.files[path] = engine.files[path]
       /\ Written \cap DOMAIN engine.files = {}
       /\ \E index \in 1..(MaxIndex + MaxCalls) :
             /\ Written = {Path(index, engine'.prompt_file, Artifacts[a]) :
                              a \in DOMAIN Artifacts}
             /\ \A i \in 1..(index - 1) : \A a \in DOMAIN Artifacts :
                   Path(i, engine'.prompt_file, Artifacts[a]) \in DOMAIN engine.files]_vars

C30_Witness ==
    /\ engine.op = "save_results"
    /\ engine.ncalls = 2
    /\ {Path(1, "p", "METRICS"), Path(2, "p", "METRICS"), Path(3, "p", "PROMPT")}
          \subseteq DOMAIN engine.files
    /\ engine.files[Path(1, "p", "METRICS")] = 1
    /\ engine.files[Path(2, "p", "METRICS")] = 0
    /\ engine.files[Path(3, "p", "PROMPT")] = 2

====
